---- MODULE Spec2Model ----
(***************************************************************************)
(* Model of the morabets-backend enrichment pipeline: the odds             *)
(* deduplicator (odds_api.py), the hit-rate estimators (contextual.py,     *)
(* enrichment.py, fantasy.py) and the concurrent enrichment orchestrator   *)
(* (odds_api.py).                                                          *)
(*                                                                         *)
(* Units.  Rates (hit_rate, table base rates, multipliers) are integers in *)
(* hundredths: 35 is 0.35.  Thresholds and prop lines are integers in      *)
(* tenths: 15 is 1.5.  Python's None for a prop line is NoLine.  A Python  *)
(* dict is a TLA+ record whose DOMAIN is the set of keys present.          *)
(***************************************************************************)
EXTENDS Integers, Sequences, FiniteSets, TLC

\* ------------------------------------------------------------------------
\* Bounds of the model
\* ------------------------------------------------------------------------
MaxProps == 2

\* ------------------------------------------------------------------------
\* Program constants
\* ------------------------------------------------------------------------
max_workers == 10

NoLine == -1

\* An exception leaving a function is modelled as this value being returned.
Raised == [exception |-> "raised"]

IsRaised(r) == "exception" \in DOMAIN r

\* dict.get(key, 0) on a game's "stat" dict
StatGet(game_stat, key) == IF key \in DOMAIN game_stat THEN game_stat[key] ELSE 0

Max0(n) == IF n > 0 THEN n ELSE 0

\* ------------------------------------------------------------------------
\* Floating point.  Python floats are IEEE-754 doubles; the mantissa needs 53
\* bits and products 106, so naturals are little-endian sequences of 12-bit
\* limbs.
\* ------------------------------------------------------------------------
LimbBits == 12

RECURSIVE Pow2Small(_)
Pow2Small(n) == IF n = 0 THEN 1 ELSE 2 * Pow2Small(n - 1)

LimbBase == Pow2Small(LimbBits)

RECURSIVE BitLenSmall(_)
BitLenSmall(n) == IF n = 0 THEN 0 ELSE 1 + BitLenSmall(n \div 2)

RECURSIVE BigMulSmall(_, _, _)
BigMulSmall(a, s, c) ==
  IF a = << >>
    THEN IF c = 0 THEN << >> ELSE << c % LimbBase >> \o BigMulSmall(<< >>, s, c \div LimbBase)
    ELSE LET v == Head(a) * s + c
         IN  << v % LimbBase >> \o BigMulSmall(Tail(a), s, v \div LimbBase)

RECURSIVE BigDivSmall(_, _)
BigDivSmall(a, s) ==
  IF a = << >> THEN [q |-> << >>, r |-> 0]
  ELSE LET hi == BigDivSmall(Tail(a), s)
           v  == hi.r * LimbBase + Head(a)
       IN  [q |-> << v \div s >> \o hi.q, r |-> v % s]

RECURSIVE BigAdd(_, _, _)
BigAdd(a, b, c) ==
  IF a = << >> /\ b = << >>
    THEN IF c = 0 THEN << >> ELSE << c >>
    ELSE LET ha == IF a = << >> THEN 0 ELSE Head(a)
             hb == IF b = << >> THEN 0 ELSE Head(b)
             ta == IF a = << >> THEN << >> ELSE Tail(a)
             tb == IF b = << >> THEN << >> ELSE Tail(b)
             v  == ha + hb + c
         IN  << v % LimbBase >> \o BigAdd(ta, tb, v \div LimbBase)

RECURSIVE BigSub(_, _, _)
BigSub(a, b, c) ==
  IF a = << >> THEN << >>
  ELSE LET hb == IF b = << >> THEN 0 ELSE Head(b)
           tb == IF b = << >> THEN << >> ELSE Tail(b)
           v  == Head(a) - hb - c
       IN  IF v < 0 THEN << v + LimbBase >> \o BigSub(Tail(a), tb, 1)
           ELSE << v >> \o BigSub(Tail(a), tb, 0)

RECURSIVE BigMul(_, _)
BigMul(a, b) ==
  IF a = << >> THEN << >>
  ELSE BigAdd(BigMulSmall(b, Head(a), 0), << 0 >> \o BigMul(Tail(a), b), 0)

RECURSIVE BigCmp(_, _)
BigCmp(a, b) ==
  IF a = << >> /\ b = << >> THEN 0
  ELSE LET ha == IF a = << >> THEN 0 ELSE Head(a)
           hb == IF b = << >> THEN 0 ELSE Head(b)
           ta == IF a = << >> THEN << >> ELSE Tail(a)
           tb == IF b = << >> THEN << >> ELSE Tail(b)
           hi == BigCmp(ta, tb)
       IN  IF hi # 0 THEN hi ELSE IF ha > hb THEN 1 ELSE IF ha < hb THEN -1 ELSE 0

RECURSIVE BigBitLen(_)
BigBitLen(a) ==
  IF a = << >> THEN 0
  ELSE LET hi == BigBitLen(Tail(a))
       IN  IF hi > 0 THEN hi + LimbBits ELSE BitLenSmall(Head(a))

RECURSIVE BigToInt(_)
BigToInt(a) == IF a = << >> THEN 0 ELSE Head(a) + LimbBase * BigToInt(Tail(a))

BigPow2(e) == [i \in 1..(e \div LimbBits) |-> 0] \o << Pow2Small(e % LimbBits) >>

BigIsOdd(a) == a # << >> /\ Head(a) % 2 = 1

\* a / 2^s rounded to the nearest integer, ties to even (the IEEE-754
\* default rounding, also the rounding of Python's round())
BigRoundShift(a, s) ==
  IF s <= 0 THEN BigMul(a, BigPow2(-s))
  ELSE LET w  == s \div LimbBits
           hi == IF Len(a) > w THEN SubSeq(a, w + 1, Len(a)) ELSE << >>
           q  == BigDivSmall(hi, Pow2Small(s % LimbBits)).q
           r  == BigSub(a, BigMul(q, BigPow2(s)), 0)
           c  == BigCmp(BigMulSmall(r, 2, 0), BigPow2(s))
       IN  IF c > 0 \/ (c = 0 /\ BigIsOdd(q)) THEN BigAdd(q, << 1 >>, 0) ELSE q

\* The IEEE-754 double nearest to p / q, as [m, e] standing for m * 2^-e.
\* It is the value of a decimal literal p/q (0.35 is DoubleOf(35, 100)) and of
\* the float division p / q of two ints.
DoubleOf(p, q) ==
  IF p = 0 THEN [m |-> << >>, e |-> 0]
  ELSE LET e0 == 52 + BitLenSmall(q) - BitLenSmall(p)
           n0 == BigDivSmall(BigMulSmall(BigPow2(e0), p, 0), q).q
           e  == IF BigBitLen(n0) = 53 THEN e0 ELSE e0 + 1
           d  == BigDivSmall(BigMulSmall(BigPow2(e), p, 0), q)
           up == 2 * d.r > q \/ (2 * d.r = q /\ BigIsOdd(d.q))
       IN  [m |-> IF up THEN BigAdd(d.q, << 1 >>, 0) ELSE d.q, e |-> e]

\* x * y of two doubles (base_rate *= 0.65)
DoubleMul(x, y) ==
  LET p == BigMul(x.m, y.m)
      s == BigBitLen(p) - 53
  IN  IF s <= 0 THEN [m |-> p, e |-> x.e + y.e]
      ELSE [m |-> BigRoundShift(p, s), e |-> x.e + y.e - s]

\* round(x, 2), in hundredths: CPython rounds the exact value of the double
\* to two decimals, ties to even
py_round2(x) == BigToInt(BigRoundShift(BigMulSmall(x.m, 100, 0), x.e))

\* Largest game sample any estimator divides by (fantasy.py: logs[:15])
MaxSample == 15

\* round(k / n, 2) for the sample counts, in hundredths
round2_div_table == [k \in 0..MaxSample, n \in 1..MaxSample |-> py_round2(DoubleOf(k, n))]

round2_div(k, n) == round2_div_table[k, n]

\* The multipliers either get_fallback_hit_rate applies to a base rate; 100
\* stands for a base rate left unscaled
Multipliers == { 65, 80, 90, 70, 85, 95, 100 }

\* round(base_rate, 2) after "base_rate *= mult" for the literals base/100
\* and mult/100, and round(base_rate, 2) of the literal itself for 100
round2_scaled_table ==
  [b \in 0..100, m \in Multipliers |->
     py_round2(IF m = 100 THEN DoubleOf(b, 100)
               ELSE DoubleMul(DoubleOf(b, 100), DoubleOf(m, 100)))]

round2_scaled(b, m) == round2_scaled_table[b, m]

\* logs[:n]
Take(s, n) == IF Len(s) <= n THEN s ELSE SubSeq(s, 1, n)

\* ------------------------------------------------------------------------
\* contextual.py
\* ------------------------------------------------------------------------
STAT_KEY_MAP ==
  [ batter_total_bases    |-> "totalBases",
    batter_hits           |-> "hits",
    batter_runs_batted_in |-> "rbi",
    batter_runs           |-> "runs",
    batter_home_runs      |-> "homeRuns",
    batter_stolen_bases   |-> "stolenBases",
    batter_walks          |-> "baseOnBalls",
    batter_strikeouts     |-> "strikeOuts",
    batter_hits_runs_rbis |-> "combinedStats",
    pitcher_strikeouts    |-> "strikeOuts",
    pitcher_hits_allowed  |-> "hits",
    pitcher_earned_runs   |-> "earnedRuns",
    pitcher_walks         |-> "baseOnBalls",
    pitcher_outs          |-> "outs",
    batter_fantasy_score  |-> "fantasyPoints",
    pitcher_fantasy_score |-> "fantasyPoints" ]

\* get_player_id: the first match of the people search, None (0) when there
\* is no match or the request fails.
contextual_get_player_id(search) ==
  IF ~search.ok THEN 0
  ELSE IF Len(search.people) > 0 THEN search.people[1] ELSE 0

\* get_opponent_context: (team, opponent, pitcher hand) of the latest entry
\* of the hitting game log, None (the empty tuple) otherwise.
contextual_get_opponent_context(resp) ==
  IF ~resp.ok THEN << >>
  ELSE IF Len(resp.splits) = 0 THEN << >>
  ELSE << resp.splits[1].team, resp.splits[1].opponent, resp.splits[1].hand >>

contextual_fallback_rates ==
  [ hits                 |-> 35,
    totalBases           |-> 40,
    rbi                  |-> 25,
    runs                 |-> 30,
    homeRuns             |-> 15,
    stolenBases          |-> 8,
    baseOnBalls          |-> 20,
    strikeOuts           |-> 65,
    combinedStats        |-> 50,
    fantasyPoints        |-> 45,
    pitcher_strikeouts   |-> 55,
    pitcher_hits_allowed |-> 45,
    pitcher_earned_runs  |-> 35,
    pitcher_walks        |-> 20,
    pitcher_outs         |-> 75 ]

\* confidence of line 201
contextual_confidence(hit_rate) ==
  IF hit_rate >= 60 THEN "High" ELSE IF hit_rate >= 40 THEN "Medium" ELSE "Low"

\* The threshold adjustment of lines 113-118
contextual_multiplier(threshold) ==
  IF threshold >= 50 THEN 65
  ELSE IF threshold >= 30 THEN 80
  ELSE IF threshold >= 15 THEN 90
  ELSE 100

\* mlb_stat_key = STAT_KEY_MAP.get(stat_type, stat_type)
contextual_fallback_key(stat_type) ==
  IF stat_type \in DOMAIN STAT_KEY_MAP THEN STAT_KEY_MAP[stat_type] ELSE stat_type

\* base_rate = fallback_rates.get(mlb_stat_key, 0.35)
contextual_base_rate(mlb_stat_key) ==
  IF mlb_stat_key \in DOMAIN contextual_fallback_rates
    THEN contextual_fallback_rates[mlb_stat_key] ELSE 35

\* Mutant: the fallback graded by its rate
contextual_get_fallback_hit_rate_graded(player_name, stat_type, threshold) ==
  IF threshold = NoLine THEN Raised
  ELSE [ player      |-> player_name,
         stat        |-> contextual_fallback_key(stat_type),
         threshold   |-> threshold,
         hit_rate    |-> round2_scaled(contextual_base_rate(contextual_fallback_key(stat_type)),
                                       contextual_multiplier(threshold)),
         sample_size |-> 10,
         confidence  |-> contextual_confidence(
                           round2_scaled(contextual_base_rate(contextual_fallback_key(stat_type)),
                                         contextual_multiplier(threshold))),
         note        |-> "Fallback calculation based on MLB averages" ]

\* get_fallback_hit_rate.  A None threshold makes "threshold >= 5" raise
\* TypeError.
contextual_get_fallback_hit_rate(player_name, stat_type, threshold) ==
  IF threshold = NoLine THEN Raised
  ELSE [ player      |-> player_name,
         stat        |-> contextual_fallback_key(stat_type),
         threshold   |-> threshold,
         hit_rate    |-> round2_scaled(contextual_base_rate(contextual_fallback_key(stat_type)),
                                       contextual_multiplier(threshold)),
         sample_size |-> 10,
         confidence  |-> "Low",
         note        |-> "Fallback calculation based on MLB averages" ]

\* The per-game value compared with the threshold (lines 175-195)
contextual_stat_value(game_stat, mlb_stat_key) ==
  IF mlb_stat_key = "combinedStats"
    THEN StatGet(game_stat, "hits") + StatGet(game_stat, "runs") + StatGet(game_stat, "rbi")
  ELSE IF mlb_stat_key = "fantasyPoints"
    THEN LET hits    == StatGet(game_stat, "hits")
             doubles == StatGet(game_stat, "doubles")
             triples == StatGet(game_stat, "triples")
             hrs     == StatGet(game_stat, "homeRuns")
             singles == Max0(hits - doubles - triples - hrs)
         IN  singles * 1 + doubles * 2 + triples * 3 + hrs * 4
             + StatGet(game_stat, "rbi") + StatGet(game_stat, "runs")
             + StatGet(game_stat, "stolenBases") * 2
  ELSE StatGet(game_stat, mlb_stat_key)

\* Mutant: the whole game log as the sample
contextual_sample_all(splits) == splits

\* The games the estimate is computed over: logs[:10], whoever the opponent
contextual_sample(splits) == Take(splits, 10)

\* The loop of lines 173-198 over the sample
contextual_over_count(recent, mlb_stat_key, threshold) ==
  Cardinality({ i \in 1..Len(recent) :
    contextual_stat_value(recent[i].stat, mlb_stat_key) * 10 >= threshold })

\* The dict of lines 203-212
contextual_estimate(player_name, mlb_stat_key, threshold, hit_rate, sample_size, context) ==
  [ player       |-> player_name,
    stat         |-> mlb_stat_key,
    threshold    |-> threshold,
    hit_rate     |-> hit_rate,
    sample_size  |-> sample_size,
    confidence   |-> contextual_confidence(hit_rate),
    pitcher_hand |-> context[3],
    opponent_id  |-> context[2] ]

\* The conditions under which get_contextual_hit_rate of contextual.py answers
\* with the fallback: an unmapped stat, no player id, no context, a failed
\* game-log request, fewer than 2 games, or the TypeError of comparing a stat
\* with a None threshold (every fault inside the try block ends in the
\* fallback).
contextual_falls_back(stat_type, threshold, search, context_resp, logs_resp) ==
  \/ stat_type \notin DOMAIN STAT_KEY_MAP
  \/ contextual_get_player_id(search) = 0
  \/ contextual_get_opponent_context(context_resp) = << >>
  \/ ~logs_resp.ok
  \/ Len(contextual_sample(logs_resp.splits)) < 2
  \/ threshold = NoLine

\* get_contextual_hit_rate of contextual.py, the estimator odds_api.py imports.
\* search, context_resp and logs_resp are the upstream answers to its three
\* requests; a response with ok = FALSE is any failure of the request
\* (timeout, non-2xx, malformed payload).  The fallback raises in turn when
\* the threshold is None.
contextual_get_contextual_hit_rate(player_name, stat_type, threshold, search, context_resp, logs_resp) ==
  IF contextual_falls_back(stat_type, threshold, search, context_resp, logs_resp)
    THEN contextual_get_fallback_hit_rate(player_name, stat_type, threshold)
    ELSE contextual_estimate(
           player_name, STAT_KEY_MAP[stat_type], threshold,
           round2_div(contextual_over_count(contextual_sample(logs_resp.splits),
                                            STAT_KEY_MAP[stat_type], threshold),
                      Len(contextual_sample(logs_resp.splits))),
           Len(contextual_sample(logs_resp.splits)),
           contextual_get_opponent_context(context_resp))

\* ------------------------------------------------------------------------
\* enrichment.py
\* ------------------------------------------------------------------------
cache_timeout == 3600

\* Mutant: one key for every name
enrichment_cache_key_shared(player_name) == "player_id_"

\* cache_key = f"player_id_{player_name}"
enrichment_cache_key(player_name) == "player_id_" \o player_name

\* Mutant: an entry still used at the age of cache_timeout
enrichment_cache_fresh_at_timeout(cache, player_name, now) ==
  /\ enrichment_cache_key(player_name) \in DOMAIN cache
  /\ now - cache[enrichment_cache_key(player_name)].timestamp <= cache_timeout

\* Lines 20-21: an entry is used while younger than cache_timeout
enrichment_cache_fresh(cache, player_name, now) ==
  /\ enrichment_cache_key(player_name) \in DOMAIN cache
  /\ now - cache[enrichment_cache_key(player_name)].timestamp < cache_timeout

\* Lines 38-41: the looked-up id (None included) stored with the time
enrichment_cache_store(cache, player_name, player_id, now) ==
  [k \in DOMAIN cache \cup { enrichment_cache_key(player_name) } |->
     IF k = enrichment_cache_key(player_name)
       THEN [player_id |-> player_id, timestamp |-> now]
       ELSE cache[k]]

\* The id found by the people search of lines 25-35
enrichment_searched_id(search) ==
  IF Len(search.people) > 0 THEN search.people[1] ELSE 0

\* get_player_id: the value returned
enrichment_get_player_id(cache, player_name, now, search) ==
  IF enrichment_cache_fresh(cache, player_name, now)
    THEN cache[enrichment_cache_key(player_name)].player_id
  ELSE IF ~search.ok THEN 0
  ELSE enrichment_searched_id(search)

\* get_player_id: the cache it leaves
enrichment_cache_after(cache, player_name, now, search) ==
  IF enrichment_cache_fresh(cache, player_name, now) \/ ~search.ok THEN cache
  ELSE enrichment_cache_store(cache, player_name, enrichment_searched_id(search), now)

\* get_opponent_context: the entry of the hitting game log dated today
enrichment_get_opponent_context(resp) ==
  IF ~resp.ok THEN << >>
  ELSE IF \A i \in 1..Len(resp.splits) : resp.splits[i].date # "today" THEN << >>
  ELSE LET i == CHOOSE j \in 1..Len(resp.splits) :
                  /\ resp.splits[j].date = "today"
                  /\ \A k \in 1..(j - 1) : resp.splits[k].date # "today"
       IN  << resp.splits[i].team, resp.splits[i].opponent, resp.splits[i].hand >>

enrichment_stat_mapping ==
  [ batter_hits           |-> "hits",
    batter_rbi            |-> "rbi",
    batter_runs           |-> "runs",
    batter_home_runs      |-> "homeRuns",
    batter_total_bases    |-> "totalBases",
    batter_stolen_bases   |-> "stolenBases",
    batter_walks          |-> "baseOnBalls",
    batter_strikeouts     |-> "strikeOuts",
    batter_hits_runs_rbis |-> "hits_runs_rbis",
    batter_fantasy_score  |-> "fantasy_score",
    pitcher_strikeouts    |-> "strikeOuts",
    pitcher_hits_allowed  |-> "hits",
    pitcher_earned_runs   |-> "earnedRuns",
    pitcher_walks         |-> "baseOnBalls",
    pitcher_outs          |-> "outs",
    hits                  |-> "hits",
    rbi                   |-> "rbi",
    runs                  |-> "runs",
    homeRuns              |-> "homeRuns",
    totalBases            |-> "totalBases",
    stolenBases           |-> "stolenBases",
    strikeOuts            |-> "strikeOuts",
    baseOnBalls           |-> "baseOnBalls" ]

get_stat_mapping(stat_type) ==
  IF stat_type \in DOMAIN enrichment_stat_mapping
    THEN enrichment_stat_mapping[stat_type] ELSE stat_type

calculate_custom_stat(game_data, stat_type) ==
  IF stat_type = "hits_runs_rbis"
    THEN StatGet(game_data, "hits") + StatGet(game_data, "runs") + StatGet(game_data, "rbi")
  ELSE IF stat_type = "fantasy_score"
    THEN (StatGet(game_data, "hits") - StatGet(game_data, "doubles")
            - StatGet(game_data, "triples") - StatGet(game_data, "homeRuns")) * 1
         + StatGet(game_data, "doubles") * 2
         + StatGet(game_data, "triples") * 3
         + StatGet(game_data, "homeRuns") * 4
         + StatGet(game_data, "rbi") + StatGet(game_data, "runs")
         + StatGet(game_data, "stolenBases") * 2 + StatGet(game_data, "baseOnBalls")
  ELSE 0

get_confidence_level(hit_rate, sample_size) ==
  IF sample_size < 5 THEN "Low"
  ELSE IF hit_rate >= 60 THEN "High"
  ELSE IF hit_rate >= 50 THEN "Medium"
  ELSE "Low"

enrichment_fallback_rates ==
  [ batter_hits           |-> 35,
    batter_rbi            |-> 25,
    batter_runs           |-> 30,
    batter_home_runs      |-> 15,
    batter_total_bases    |-> 40,
    batter_stolen_bases   |-> 10,
    batter_walks          |-> 20,
    batter_strikeouts     |-> 60,
    batter_hits_runs_rbis |-> 45,
    batter_fantasy_score  |-> 50,
    pitcher_strikeouts    |-> 55,
    pitcher_hits_allowed  |-> 45,
    pitcher_earned_runs   |-> 30,
    pitcher_walks         |-> 25,
    pitcher_outs          |-> 70,
    hits                  |-> 35,
    rbi                   |-> 25,
    runs                  |-> 30,
    homeRuns              |-> 15,
    totalBases            |-> 40,
    stolenBases           |-> 10,
    strikeOuts            |-> 60,
    baseOnBalls           |-> 20 ]

\* base_rate = fallback_rates.get(stat_type, 0.30)
enrichment_base_rate(stat_type) ==
  IF stat_type \in DOMAIN enrichment_fallback_rates
    THEN enrichment_fallback_rates[stat_type] ELSE 30

\* The threshold adjustment of lines 180-185
enrichment_multiplier(threshold) ==
  IF threshold >= 50 THEN 70
  ELSE IF threshold >= 30 THEN 85
  ELSE IF threshold >= 15 THEN 95
  ELSE 100

\* get_fallback_hit_rate.  The TypeError of "threshold >= 5" on a None
\* threshold is caught at line 196.
enrichment_get_fallback_hit_rate(player_name, stat_type, threshold) ==
  IF threshold = NoLine
    THEN [ player      |-> player_name,
           stat        |-> stat_type,
           threshold   |-> threshold,
           hit_rate    |-> 30,
           sample_size |-> 0,
           confidence  |-> "Unknown",
           error       |-> "Fallback calculation failed" ]
    ELSE [ player      |-> player_name,
           stat        |-> stat_type,
           threshold   |-> threshold,
           hit_rate    |-> round2_scaled(enrichment_base_rate(stat_type),
                                         enrichment_multiplier(threshold)),
           sample_size |-> 10,
           confidence  |-> "Low",
           note        |-> "Fallback calculation - limited data available" ]

\* Lines 241-245: the games of logs[:10] against the context's opponent and
\* pitcher hand
\* Mutant: the filter on the opponent alone
enrichment_filtered_by_opponent(games, context) ==
  SelectSeq(games, LAMBDA game : game.opponent = context[2])

enrichment_filtered(games, context) ==
  SelectSeq(games, LAMBDA game : game.opponent = context[2] /\ game.hand = context[3])

\* Lines 256-260: the per-game value compared with the threshold
enrichment_stat_value(game_stat, api_field) ==
  IF api_field \in { "hits_runs_rbis", "fantasy_score" }
    THEN calculate_custom_stat(game_stat, api_field)
    ELSE StatGet(game_stat, api_field)

\* The loop of lines 254-263
enrichment_over_count(filtered, api_field, threshold) ==
  Cardinality({ i \in 1..Len(filtered) :
    enrichment_stat_value(filtered[i].stat, api_field) * 10 >= threshold })

\* The dict of lines 267-276
enrichment_estimate(player_name, stat_type, threshold, hit_rate, sample_size, context) ==
  [ player       |-> player_name,
    stat         |-> stat_type,
    threshold    |-> threshold,
    hit_rate     |-> hit_rate,
    sample_size  |-> sample_size,
    pitcher_hand |-> context[3],
    opponent_id  |-> context[2],
    confidence   |-> get_confidence_level(hit_rate, sample_size) ]

\* The conditions under which get_contextual_hit_rate of enrichment.py
\* answers with the fallback: no player id, no context, a failed game-log
\* request, no game of logs[:10] in the context, or the TypeError of
\* comparing a stat with a None threshold.
enrichment_falls_back(player_id, threshold, context_resp, logs_resp) ==
  \/ player_id = 0
  \/ enrichment_get_opponent_context(context_resp) = << >>
  \/ ~logs_resp.ok
  \/ enrichment_filtered(Take(logs_resp.splits, 10),
                         enrichment_get_opponent_context(context_resp)) = << >>
  \/ threshold = NoLine

\* The estimate of lines 250-276 over the filtered games
enrichment_computed(player_name, stat_type, threshold, filtered, context) ==
  enrichment_estimate(
    player_name, stat_type, threshold,
    round2_div(enrichment_over_count(filtered, get_stat_mapping(stat_type), threshold),
               Len(filtered)),
    Len(filtered), context)

\* get_contextual_hit_rate of enrichment.py, given the id get_player_id
\* returned
enrichment_get_contextual_hit_rate(player_name, stat_type, threshold, player_id, context_resp, logs_resp) ==
  IF enrichment_falls_back(player_id, threshold, context_resp, logs_resp)
    THEN enrichment_get_fallback_hit_rate(player_name, stat_type, threshold)
    ELSE enrichment_computed(
           player_name, stat_type, threshold,
           enrichment_filtered(Take(logs_resp.splits, 10),
                               enrichment_get_opponent_context(context_resp)),
           enrichment_get_opponent_context(context_resp))

\* ------------------------------------------------------------------------
\* fantasy.py
\* ------------------------------------------------------------------------
fantasy_get_player_id(search) ==
  IF ~search.ok THEN 0
  ELSE IF Len(search.people) > 0 THEN search.people[1] ELSE 0

calculate_fantasy_points(game_stats) ==
    StatGet(game_stats, "hits") * 3
  + StatGet(game_stats, "doubles") * 2
  + StatGet(game_stats, "triples") * 5
  + StatGet(game_stats, "homeRuns") * 4
  + StatGet(game_stats, "runs") * 2
  + StatGet(game_stats, "rbi") * 2
  + StatGet(game_stats, "stolenBases") * 5
  + StatGet(game_stats, "baseOnBalls") * 2
  + StatGet(game_stats, "hitByPitch") * 2

\* The loop of lines 82-88 over logs[:15]
fantasy_games_over(games, threshold) ==
  Cardinality({ i \in 1..Len(games) :
    calculate_fantasy_points(games[i].stat) * 10 >= threshold })

\* The dict of lines 92-98
fantasy_estimate(player_name, threshold, games_over_threshold, total_games) ==
  [ player           |-> player_name,
    threshold        |-> threshold,
    fantasy_hit_rate |-> round2_div(games_over_threshold, total_games),
    sample_size      |-> total_games,
    games_over       |-> games_over_threshold ]

\* get_fantasy_hit_rate of fantasy.py, the estimator odds_api.py imports.  It
\* catches every exception: a failed request and the TypeError of comparing
\* with a None threshold both end in the error dict of line 102.
fantasy_get_fantasy_hit_rate(player_name, threshold, search, logs_resp) ==
  IF fantasy_get_player_id(search) = 0 THEN [ error |-> "Player not found" ]
  ELSE IF ~logs_resp.ok THEN [ error |-> "Failed to calculate fantasy hit rate" ]
  ELSE IF Len(logs_resp.splits) = 0
    THEN [ error     |-> "No recent game data found",
           player    |-> player_name,
           threshold |-> threshold ]
  ELSE IF threshold = NoLine THEN [ error |-> "Failed to calculate fantasy hit rate" ]
  ELSE fantasy_estimate(player_name, threshold,
                        fantasy_games_over(Take(logs_resp.splits, 15), threshold),
                        Len(Take(logs_resp.splits, 15)))

\* ------------------------------------------------------------------------
\* odds_api.py: deduplicate_props
\* ------------------------------------------------------------------------
\* f"{line}": a float line prints with one decimal here, None as "None"
format_line(line) ==
  IF line = NoLine THEN "None"
  ELSE ToString(line \div 10) \o "." \o ToString(line % 10)

\* Mutant: the line left out of the key
prop_key_without_line(prop) == prop.player \o "_" \o prop.stat

\* key = f"{prop['player']}_{prop['stat']}_{prop['line']}"
prop_key(prop) == prop.player \o "_" \o prop.stat \o "_" \o format_line(prop.line)

\* Mutant: odds compared by magnitude ("higher absolute value")
better_odds_by_magnitude(current_odds, new_odds) ==
  (IF new_odds < 0 THEN -new_odds ELSE new_odds)
    > (IF current_odds < 0 THEN -current_odds ELSE current_odds)

\* The test of line 212 that lets a later entry replace the retained one
better_odds(current_odds, new_odds) ==
  (current_odds > 0 /\ new_odds > current_odds) \/ (current_odds < 0 /\ new_odds > current_odds)

\* The loop of lines 199-213.  unique_props is the dict, kept as the sequence
\* of its (key, value) items in insertion order; assigning to a key that is
\* present keeps the key's position.
RECURSIVE deduplicate_loop(_, _)
deduplicate_loop(props, unique_props) ==
  IF props = << >> THEN unique_props
  ELSE
    LET prop == Head(props)
        key  == prop_key(prop)
        at   == { i \in 1..Len(unique_props) : unique_props[i].key = key }
    IN  IF at = {}
          THEN deduplicate_loop(Tail(props), Append(unique_props, [key |-> key, value |-> prop]))
          ELSE
            LET i == CHOOSE j \in at : TRUE
            IN  IF better_odds(unique_props[i].value.odds, prop.odds)
                  THEN deduplicate_loop(Tail(props),
                         [unique_props EXCEPT ![i] = [key |-> key, value |-> prop]])
                  ELSE deduplicate_loop(Tail(props), unique_props)

\* Mutant: the values listed newest key first
deduplicate_props_reversed(props) ==
  LET unique_props == deduplicate_loop(props, << >>)
  IN  [i \in 1..Len(unique_props) |-> unique_props[Len(unique_props) + 1 - i].value]

\* deduplicate_props: list(unique_props.values())
deduplicate_props(props) ==
  LET unique_props == deduplicate_loop(props, << >>)
  IN  [i \in 1..Len(unique_props) |-> unique_props[i].value]

\* ------------------------------------------------------------------------
\* odds_api.py: enrich_prop
\* ------------------------------------------------------------------------
\* Mutant: the outer handler forgets to record the fault
enrich_prop_failed_silently(prop, e) ==
  [ contextual_hit_rate |-> [ hit_rate |-> 30, confidence |-> "Low" ],
    fantasy_hit_rate    |-> [ hit_rate |-> 35, confidence |-> "Low" ],
    enriched            |-> FALSE ] @@ prop

\* The outer handler of enrich_prop (lines 283-300): the prop with two
\* constant estimates, enriched False and the fault recorded in "error"
enrich_prop_failed(prop, e) ==
  [ contextual_hit_rate |-> [ hit_rate   |-> 30,
                              confidence |-> "Low",
                              error      |-> "Enrichment failed" ],
    fantasy_hit_rate    |-> [ hit_rate   |-> 35,
                              confidence |-> "Low",
                              error      |-> "Enrichment failed" ],
    enriched            |-> FALSE,
    error               |-> e ] @@ prop

\* The handler of lines 230-239 for an exception of the contextual estimator
enrich_contextual_caught(prop, returned) ==
  IF IsRaised(returned)
    THEN [ player     |-> prop.player,
           stat       |-> prop.stat,
           threshold  |-> prop.line,
           hit_rate   |-> "None",
           confidence |-> "Unknown",
           error      |-> "Contextual calculation failed" ]
    ELSE returned

\* Lines 242-250: "if not contextual or contextual.get('error')"
enrich_contextual_ensured(prop, contextual) ==
  IF DOMAIN contextual = {} \/ "error" \in DOMAIN contextual
    THEN [ player     |-> prop.player,
           stat       |-> prop.stat,
           threshold  |-> prop.line,
           hit_rate   |-> 30,
           confidence |-> "Low",
           note       |-> "Using fallback hit rate" ]
    ELSE contextual

\* The default of lines 258-264 and 268-274
enrich_fantasy_default(prop) ==
  [ player     |-> prop.player,
    threshold  |-> prop.line,
    hit_rate   |-> 35,
    confidence |-> "Low",
    note       |-> "Using fallback fantasy rate" ]

\* Lines 254-274: the default replaces an exception and "if not fantasy"
enrich_fantasy_ensured(prop, returned) ==
  IF IsRaised(returned) \/ DOMAIN returned = {}
    THEN enrich_fantasy_default(prop)
    ELSE returned

\* enrich_prop(prop) with `up`, the upstream answers to the requests of the
\* two estimators it calls.  prop["player"] raises KeyError for a prop
\* without a player, first at line 226 and again inside the handler at line
\* 231, which leaves the inner try for the outer handler of line 283.
enrich_prop(prop, up) ==
  IF "player" \notin DOMAIN prop
    THEN enrich_prop_failed(prop, "'player'")
    ELSE [ contextual_hit_rate |->
             enrich_contextual_ensured(prop, enrich_contextual_caught(prop,
               contextual_get_contextual_hit_rate(
                 prop.player, prop.stat, prop.line, up.search, up.context, up.logs))),
           fantasy_hit_rate |->
             enrich_fantasy_ensured(prop,
               fantasy_get_fantasy_hit_rate(prop.player, prop.line, up.fsearch, up.flogs)),
           enriched |-> TRUE ] @@ prop

\* ------------------------------------------------------------------------
\* Inputs: game logs, upstream answers, props
\* ------------------------------------------------------------------------
GameA == [ date |-> "today", team |-> 147, opponent |-> 111, hand |-> "R",
           stat |-> [ hits |-> 2, doubles |-> 1, triples |-> 0, homeRuns |-> 0,
                      rbi |-> 1, runs |-> 1, stolenBases |-> 0, baseOnBalls |-> 0,
                      totalBases |-> 3, strikeOuts |-> 1 ] ]

GameB == [ date |-> "earlier", team |-> 147, opponent |-> 111, hand |-> "L",
           stat |-> [ hits |-> 0, doubles |-> 0, triples |-> 0, homeRuns |-> 0,
                      rbi |-> 0, runs |-> 0, stolenBases |-> 0, baseOnBalls |-> 1,
                      totalBases |-> 0, strikeOuts |-> 3 ] ]

GameC == [ date |-> "earlier", team |-> 147, opponent |-> 121, hand |-> "R",
           stat |-> [ hits |-> 1, doubles |-> 0, triples |-> 0, homeRuns |-> 1,
                      rbi |-> 2, runs |-> 1, stolenBases |-> 1, baseOnBalls |-> 0,
                      totalBases |-> 4, strikeOuts |-> 0 ] ]

\* A failed request, and the people search answers
Failure == [ ok |-> FALSE, people |-> << >>, splits |-> << >> ]

SearchEmpty == [ ok |-> TRUE, people |-> << >> ]

SearchFound == [ ok |-> TRUE, people |-> << 592450, 660271 >> ]

Searches == { Failure, SearchEmpty, SearchFound }

GameLog(splits) == [ ok |-> TRUE, splits |-> splits ]

\* The upstream answers one enrich_prop task can meet
TaskUpstream ==
  [ search  : Searches,
    context : { Failure, GameLog(<< GameA, GameB, GameC >>) },
    logs    : { Failure, GameLog(<< GameA, GameB, GameC >>) },
    fsearch : Searches,
    flogs   : { Failure, GameLog(<< >>), GameLog(<< GameA, GameB, GameC >>) } ]

\* Props handed to enrich_player_props: a complete prop, a prop whose outcome
\* had no "point" (line None, odds_api.py line 165) and a dict without a
\* player (the case line 284 reads with prop.get('player', 'Unknown')).
EnrichProps ==
  { [ player |-> "Aaron Judge", stat |-> "batter_hits", line |-> 15,
      odds |-> -120, bookmaker |-> "DraftKings" ],
    [ player |-> "Shohei Ohtani", stat |-> "batter_home_runs", line |-> NoLine,
      odds |-> 150, bookmaker |-> "FanDuel" ],
    [ stat |-> "pitcher_strikeouts", line |-> 55,
      odds |-> 100, bookmaker |-> "BetMGM" ] }

RECURSIVE ListsUpTo(_, _)
ListsUpTo(S, n) ==
  IF n = 0 THEN { << >> }
  ELSE LET shorter == ListsUpTo(S, n - 1)
       IN  shorter \cup { Append(l, x) : l \in shorter, x \in S }

\* ------------------------------------------------------------------------
\* State
\* ------------------------------------------------------------------------
VARIABLES
  pc,              \* enrich_player_props: "call", "mapping", "returned"
  props,           \* its argument
  task,            \* per prop: "idle", "queued", "running", "done"
  future,          \* per prop: the result of its enrich_prop task
  finished,        \* indices of the tasks in the order they completed
  enriched_props,  \* the list enrich_player_props builds and returns
  dpc,             \* deduplication: "input", "once", "twice"
  raw_props,       \* the argument of deduplicate_props
  deduplicated,    \* deduplicate_props(raw_props)
  rededuplicated,  \* deduplicate_props(deduplicated)
  est_pc,          \* an estimator call: "ready", "done"
  est_call,        \* the module called and its arguments
  est_upstream,    \* the time and the upstream answers the call met
  est_result,      \* what the call returned
  player_id_cache, \* enrichment.py: the module-level cache of player ids
  clock,           \* time.time(), in seconds
  worker,          \* per thread: its call of enrichment.py's get_player_id
  ODDS_API_KEY,    \* whether the provider credential is set
  fetch,           \* a call of fetch_player_props
  games            \* a call of parse_game_data

vars == << pc, props, task, future, finished, enriched_props,
           dpc, raw_props, deduplicated, rededuplicated,
           est_pc, est_call, est_upstream, est_result, player_id_cache,
           clock, worker, ODDS_API_KEY, fetch, games >>

enrich_vars == << pc, props, task, future, finished, enriched_props >>

dedup_vars == << dpc, raw_props, deduplicated, rededuplicated >>

lookup_vars == << clock, worker >>

odds_vars == << ODDS_API_KEY, fetch, games >>

est_vars == << est_pc, est_call, est_upstream, est_result, player_id_cache, lookup_vars >>

\* player_id_cache = {}
EmptyCache == [k \in {} |-> [player_id |-> 0, timestamp |-> 0]]

Pending == [ pending |-> TRUE ]

EnrichIdle ==
  /\ pc = "idle" /\ props = << >> /\ task = << >> /\ future = << >>
  /\ finished = << >> /\ enriched_props = << >>

DedupIdle ==
  /\ dpc = "idle" /\ raw_props = << >> /\ deduplicated = << >> /\ rededuplicated = << >>

OddsIdle == ODDS_API_KEY = TRUE /\ fetch = << >> /\ games = << >>

EstIdle ==
  /\ est_pc = "idle" /\ est_call = << >> /\ est_upstream = << >> /\ est_result = << >>
  /\ player_id_cache = EmptyCache
  /\ clock = 0 /\ worker = << >>

\* ------------------------------------------------------------------------
\* odds_api.py: enrich_player_props
\* ------------------------------------------------------------------------
Init ==
  /\ props \in ListsUpTo(EnrichProps, MaxProps)
  /\ pc = "call"
  /\ task = [i \in 1..Len(props) |-> "idle"]
  /\ future = [i \in 1..Len(props) |-> Pending]
  /\ finished = << >>
  /\ enriched_props = << >>
  /\ DedupIdle
  /\ OddsIdle
  /\ EstIdle

\* if not props: return []
ReturnEmpty ==
  /\ pc = "call" /\ props = << >>
  /\ pc' = "returned"
  /\ enriched_props' = << >>
  /\ UNCHANGED << props, task, future, finished, dedup_vars, est_vars, odds_vars >>

\* executor.map submits one task per prop, in order, before it yields
Submit ==
  /\ pc = "call" /\ props # << >>
  /\ pc' = "mapping"
  /\ task' = [i \in 1..Len(props) |-> "queued"]
  /\ UNCHANGED << props, future, finished, enriched_props, dedup_vars, est_vars, odds_vars >>

\* A free worker of the pool takes the oldest queued task
Start(i) ==
  /\ pc = "mapping" /\ task[i] = "queued"
  /\ \A j \in 1..(i - 1) : task[j] # "queued"
  /\ Cardinality({ j \in 1..Len(props) : task[j] = "running" }) < max_workers
  /\ task' = [task EXCEPT ![i] = "running"]
  /\ UNCHANGED << pc, props, future, finished, enriched_props, dedup_vars, est_vars, odds_vars >>

\* The worker runs enrich_prop(props[i]) to its return
Finish(i) ==
  /\ pc = "mapping" /\ task[i] = "running"
  /\ \E up \in TaskUpstream : future' = [future EXCEPT ![i] = enrich_prop(props[i], up)]
  /\ task' = [task EXCEPT ![i] = "done"]
  /\ finished' = Append(finished, i)
  /\ UNCHANGED << pc, props, enriched_props, dedup_vars, est_vars, odds_vars >>

\* Mutant: results appended as the tasks complete
CollectAsCompleted ==
  /\ pc = "mapping" /\ Len(enriched_props) < Len(finished)
  /\ enriched_props' = Append(enriched_props, future[finished[Len(enriched_props) + 1]])
  /\ UNCHANGED << pc, props, task, future, finished, dedup_vars, est_vars, odds_vars >>

\* list(...) takes the results in submission order, waiting for each
Collect ==
  /\ pc = "mapping" /\ Len(enriched_props) < Len(props)
  /\ task[Len(enriched_props) + 1] = "done"
  /\ enriched_props' = Append(enriched_props, future[Len(enriched_props) + 1])
  /\ UNCHANGED << pc, props, task, future, finished, dedup_vars, est_vars, odds_vars >>

\* return enriched_props
Return ==
  /\ pc = "mapping" /\ Len(enriched_props) = Len(props)
  /\ pc' = "returned"
  /\ UNCHANGED << props, task, future, finished, enriched_props, dedup_vars, est_vars, odds_vars >>

Next ==
  \/ ReturnEmpty
  \/ Submit
  \/ \E i \in 1..Len(props) : Start(i)
  \/ \E i \in 1..Len(props) : Finish(i)
  \/ Collect
  \/ Return

Spec == Init /\ [][Next]_vars

\* ------------------------------------------------------------------------
\* odds_api.py: deduplicate_props applied to a fetched list, and to its own
\* output
\* ------------------------------------------------------------------------
\* Bound on the length of the list handed to deduplicate_props
MaxRaw == 3

\* Raw props as fetch_player_props appends them: three (player, stat, line)
\* identities quoted by two books at American odds of either sign
DedupProps ==
  { [ player |-> k[1], stat |-> k[2], line |-> k[3], odds |-> o, bookmaker |-> b ] :
      k \in { << "Aaron Judge", "batter_hits", 15 >>,
              << "Aaron Judge", "batter_hits", 5 >>,
              << "Shohei Ohtani", "batter_total_bases", 15 >> },
      o \in { -150, -120, 100, 150 },
      b \in { "DraftKings", "FanDuel" } }

InitDedup ==
  /\ raw_props \in ListsUpTo(DedupProps, MaxRaw)
  /\ dpc = "input"
  /\ deduplicated = << >>
  /\ rededuplicated = << >>
  /\ EnrichIdle
  /\ EstIdle
  /\ OddsIdle

Deduplicate ==
  /\ dpc = "input"
  /\ deduplicated' = deduplicate_props(raw_props)
  /\ dpc' = "once"
  /\ UNCHANGED << raw_props, rededuplicated, enrich_vars, est_vars, odds_vars >>

DeduplicateAgain ==
  /\ dpc = "once"
  /\ rededuplicated' = deduplicate_props(deduplicated)
  /\ dpc' = "twice"
  /\ UNCHANGED << raw_props, deduplicated, enrich_vars, est_vars, odds_vars >>

NextDedup == Deduplicate \/ DeduplicateAgain

SpecDedup == InitDedup /\ [][NextDedup]_vars

\* Props whose player and stat contain the separator of the key: the market
\* key "batter_hits" and a legacy key "hits", a name and the name extended
\* by "_batter"
KeyProps ==
  { [ player |-> p, stat |-> st, line |-> 15, odds |-> o, bookmaker |-> "DraftKings" ] :
      p \in { "Smith", "Smith_batter" }, st \in { "batter_hits", "hits" },
      o \in { -110, 100 } }

InitDedupKeys ==
  /\ raw_props \in ListsUpTo(KeyProps, MaxRaw)
  /\ dpc = "input"
  /\ deduplicated = << >>
  /\ rededuplicated = << >>
  /\ EnrichIdle
  /\ EstIdle
  /\ OddsIdle

SpecDedupKeys == InitDedupKeys /\ [][NextDedup]_vars

\* ------------------------------------------------------------------------
\* contextual.py and enrichment.py: one call of get_contextual_hit_rate
\* ------------------------------------------------------------------------
\* Bound on the length of a run of equal games in a game log
MaxRun == 6

\* Earlier games: GameD and GameE against opponent 111 and a right-hander
\* (the context of GameA), GameD without a hit and GameE with two
GameD == [ GameB EXCEPT !.hand = "R" ]

GameE == [ GameA EXCEPT !.date = "earlier" ]

LogGames == { GameB, GameD, GameE }

\* A game log, latest first: n1 games g1, then n2 games g2
Runs(g1, n1, g2, n2) == [i \in 1..(n1 + n2) |-> IF i <= n1 THEN g1 ELSE g2]

EstimateLogs ==
  { Failure } \cup
  { GameLog(Runs(g1, n1, g2, n2)) : g1 \in LogGames, n1 \in 0..MaxRun,
                                    g2 \in LogGames, n2 \in 0..MaxRun }

\* The hitting game log the context is read from: failed, without a game
\* today, with today's game second
EstimateContexts == { Failure, GameLog(<< GameB >>), GameLog(<< GameB, GameA >>) }

\* A mapped stat whose fallback rate is below 0.4, one above 0.6, and a
\* key neither module maps
EstimateStats == { "batter_hits", "batter_strikeouts", "batter_doubles" }

EstimateThresholds == { 5, 15, NoLine }

EstimateCalls ==
  [ module      : { "contextual", "enrichment" },
    player_name : { "Aaron Judge" },
    stat_type   : EstimateStats,
    threshold   : EstimateThresholds ]

\* The caches an earlier call of enrichment.py can have left at time now:
\* empty, or one entry for the player written age seconds ago, holding an
\* id or None
CachesAt(player_name, now) ==
  { EmptyCache } \cup
  { enrichment_cache_store(EmptyCache, player_name, id, now - age) :
      id \in { 0, 592450 }, age \in { cache_timeout - 1, cache_timeout } }

InitEstimate ==
  /\ est_pc = "ready"
  /\ est_call = << >>
  /\ est_upstream = << >>
  /\ est_result = << >>
  /\ player_id_cache \in CachesAt("Aaron Judge", cache_timeout)
  /\ clock = 0 /\ worker = << >>
  /\ EnrichIdle
  /\ DedupIdle
  /\ OddsIdle

\* get_contextual_hit_rate of contextual.py
ContextualGetContextualHitRate ==
  /\ est_pc = "ready"
  /\ \E call \in EstimateCalls, search \in Searches,
        context \in EstimateContexts, logs \in EstimateLogs :
       /\ call.module = "contextual"
       /\ est_call' = call
       /\ est_upstream' = [ now |-> cache_timeout, cache |-> player_id_cache,
                            search |-> search, context |-> context, logs |-> logs ]
       /\ est_result' = contextual_get_contextual_hit_rate(
                          call.player_name, call.stat_type, call.threshold,
                          search, context, logs)
  /\ est_pc' = "done"
  /\ UNCHANGED << player_id_cache, lookup_vars, enrich_vars, dedup_vars, odds_vars >>

\* get_contextual_hit_rate of enrichment.py, its get_player_id reading and
\* writing player_id_cache
EnrichmentGetContextualHitRate ==
  /\ est_pc = "ready"
  /\ \E call \in EstimateCalls, search \in Searches,
        context \in EstimateContexts, logs \in EstimateLogs :
       /\ call.module = "enrichment"
       /\ est_call' = call
       /\ est_upstream' = [ now |-> cache_timeout, cache |-> player_id_cache,
                            search |-> search, context |-> context, logs |-> logs ]
       /\ est_result' = enrichment_get_contextual_hit_rate(
                          call.player_name, call.stat_type, call.threshold,
                          enrichment_get_player_id(player_id_cache, call.player_name,
                                                   cache_timeout, search),
                          context, logs)
       /\ player_id_cache' = enrichment_cache_after(player_id_cache, call.player_name,
                                                    cache_timeout, search)
  /\ est_pc' = "done"
  /\ UNCHANGED << lookup_vars, enrich_vars, dedup_vars, odds_vars >>

NextEstimate == ContextualGetContextualHitRate \/ EnrichmentGetContextualHitRate

SpecEstimate == InitEstimate /\ [][NextEstimate]_vars

\* ------------------------------------------------------------------------
\* contextual.py and enrichment.py: one call of get_fallback_hit_rate
\* ------------------------------------------------------------------------
\* Every key of the two rate tables and of the two stat maps, and a key
\* none of them has
FallbackStats ==
  DOMAIN STAT_KEY_MAP \cup DOMAIN contextual_fallback_rates
    \cup DOMAIN enrichment_stat_mapping \cup DOMAIN enrichment_fallback_rates
    \cup { "batter_doubles" }

\* Bound on the thresholds, in tenths
MaxThreshold == 55

FallbackThresholds == (0..MaxThreshold) \cup { NoLine }

InitFallback ==
  /\ est_pc = "ready"
  /\ est_call = << >>
  /\ est_upstream = << >>
  /\ est_result = << >>
  /\ player_id_cache = EmptyCache
  /\ clock = 0 /\ worker = << >>
  /\ EnrichIdle
  /\ DedupIdle
  /\ OddsIdle

ContextualGetFallbackHitRate ==
  /\ est_pc = "ready"
  /\ \E stat_type \in FallbackStats, threshold \in FallbackThresholds :
       /\ est_call' = [ module |-> "contextual", player_name |-> "Aaron Judge",
                        stat_type |-> stat_type, threshold |-> threshold ]
       /\ est_result' = contextual_get_fallback_hit_rate("Aaron Judge", stat_type, threshold)
  /\ est_pc' = "done"
  /\ UNCHANGED << est_upstream, player_id_cache, lookup_vars, enrich_vars, dedup_vars, odds_vars >>

EnrichmentGetFallbackHitRate ==
  /\ est_pc = "ready"
  /\ \E stat_type \in FallbackStats, threshold \in FallbackThresholds :
       /\ est_call' = [ module |-> "enrichment", player_name |-> "Aaron Judge",
                        stat_type |-> stat_type, threshold |-> threshold ]
       /\ est_result' = enrichment_get_fallback_hit_rate("Aaron Judge", stat_type, threshold)
  /\ est_pc' = "done"
  /\ UNCHANGED << est_upstream, player_id_cache, lookup_vars, enrich_vars, dedup_vars, odds_vars >>

NextFallback == ContextualGetFallbackHitRate \/ EnrichmentGetFallbackHitRate

SpecFallback == InitFallback /\ [][NextFallback]_vars

\* ------------------------------------------------------------------------
\* contextual.py and enrichment.py: the composite fantasy score of one game
\* ------------------------------------------------------------------------
\* Bound on each stat count of a game line
MaxCount == 2

\* The stat dicts of a game-log entry, every count the score reads present
GameLines ==
  [ hits : 0..MaxCount, doubles : 0..MaxCount, triples : 0..MaxCount,
    homeRuns : 0..MaxCount, rbi : 0..MaxCount, runs : 0..MaxCount,
    stolenBases : 0..MaxCount, baseOnBalls : 0..MaxCount ]

InitScore ==
  /\ est_pc = "ready"
  /\ est_call = << >>
  /\ est_upstream = << >>
  /\ est_result = << >>
  /\ player_id_cache = EmptyCache
  /\ clock = 0 /\ worker = << >>
  /\ EnrichIdle
  /\ DedupIdle
  /\ OddsIdle

\* The "fantasyPoints" branch of contextual.py's loop, for one game
ContextualFantasyPoints ==
  /\ est_pc = "ready"
  /\ \E game_stat \in GameLines :
       /\ est_call' = [ module |-> "contextual", game_stat |-> game_stat ]
       /\ est_result' = contextual_stat_value(game_stat, "fantasyPoints")
  /\ est_pc' = "done"
  /\ UNCHANGED << est_upstream, player_id_cache, lookup_vars, enrich_vars, dedup_vars, odds_vars >>

\* calculate_custom_stat(game_stat, "fantasy_score") of enrichment.py
EnrichmentFantasyScore ==
  /\ est_pc = "ready"
  /\ \E game_stat \in GameLines :
       /\ est_call' = [ module |-> "enrichment", game_stat |-> game_stat ]
       /\ est_result' = calculate_custom_stat(game_stat, "fantasy_score")
  /\ est_pc' = "done"
  /\ UNCHANGED << est_upstream, player_id_cache, lookup_vars, enrich_vars, dedup_vars, odds_vars >>

NextScore == ContextualFantasyPoints \/ EnrichmentFantasyScore

SpecScore == InitScore /\ [][NextScore]_vars

\* ------------------------------------------------------------------------
\* enrichment.py: concurrent calls of get_player_id on the shared cache
\* ------------------------------------------------------------------------
\* Bound on the number of threads calling get_player_id
MaxWorkers == 2

\* Bound on the time that passes, in cache timeouts
MaxPeriods == 1

Workers == 1..MaxWorkers

PlayerNames == { "Aaron Judge", "Shohei Ohtani" }

\* The id the stats provider has for a name
MlbId(player_name) == IF player_name = "Aaron Judge" THEN 592450 ELSE 660271

\* The answers of the people search for a name: a failure, no match, or
\* the player first among the matches
SearchesFor(player_name) ==
  { Failure, SearchEmpty, [ ok |-> TRUE, people |-> << MlbId(player_name), 999999 >> ] }

\* The instants the clock is read at: around every multiple of the timeout
Instants ==
  { t \in UNION { { k * cache_timeout - 1, k * cache_timeout, k * cache_timeout + 1 } :
                    k \in 0..MaxPeriods } :
      t >= 0 /\ t <= MaxPeriods * cache_timeout }

NotCalling ==
  [ pc |-> "idle", name |-> "", requested |-> FALSE, search |-> Failure,
    player_id |-> 0, result |-> 0 ]

InitCache ==
  /\ clock = 0
  /\ player_id_cache = EmptyCache
  /\ worker = [w \in Workers |-> NotCalling]
  /\ est_pc = "idle" /\ est_call = << >> /\ est_upstream = << >> /\ est_result = << >>
  /\ EnrichIdle
  /\ DedupIdle
  /\ OddsIdle

\* Time passes
Tick ==
  /\ \E t \in Instants : t > clock /\ clock' = t
  /\ UNCHANGED << player_id_cache, worker, est_pc, est_call, est_upstream, est_result,
                  enrich_vars, dedup_vars, odds_vars >>

\* Lines 19-22: the thread reads the entry and the time, and returns the
\* cached id of a fresh entry
Lookup(w, player_name) ==
  /\ worker[w].pc \in { "idle", "returned" }
  /\ IF enrichment_cache_fresh(player_id_cache, player_name, clock)
       THEN worker' = [worker EXCEPT ![w] =
              [ pc |-> "returned", name |-> player_name, requested |-> FALSE,
                search |-> Failure,
                player_id |-> player_id_cache[enrichment_cache_key(player_name)].player_id,
                result |-> player_id_cache[enrichment_cache_key(player_name)].player_id ]]
       ELSE worker' = [worker EXCEPT ![w] =
              [ pc |-> "requesting", name |-> player_name, requested |-> TRUE,
                search |-> Failure, player_id |-> 0, result |-> 0 ]]
  /\ UNCHANGED << clock, player_id_cache, est_pc, est_call, est_upstream, est_result,
                  enrich_vars, dedup_vars, odds_vars >>

\* Lines 25-35 and 44-49: the people search answers; a failure returns None
Respond(w) ==
  /\ worker[w].pc = "requesting"
  /\ \E search \in SearchesFor(worker[w].name) :
       worker' = [worker EXCEPT ![w] =
         IF search.ok
           THEN [ @ EXCEPT !.pc = "storing", !.search = search,
                           !.player_id = enrichment_searched_id(search) ]
           ELSE [ @ EXCEPT !.pc = "returned", !.search = search, !.result = 0 ]]
  /\ UNCHANGED << clock, player_id_cache, est_pc, est_call, est_upstream, est_result,
                  enrich_vars, dedup_vars, odds_vars >>

\* Lines 38-43: the new entry, built whole, replaces the name's entry in one
\* dict assignment; the id is returned
Store(w) ==
  /\ worker[w].pc = "storing"
  /\ player_id_cache' =
       enrichment_cache_store(player_id_cache, worker[w].name, worker[w].player_id, clock)
  /\ worker' = [worker EXCEPT ![w] = [ @ EXCEPT !.pc = "returned", !.result = worker[w].player_id ]]
  /\ UNCHANGED << clock, est_pc, est_call, est_upstream, est_result,
                  enrich_vars, dedup_vars, odds_vars >>

NextCache ==
  \/ Tick
  \/ \E w \in Workers, player_name \in PlayerNames : Lookup(w, player_name)
  \/ \E w \in Workers : Respond(w)
  \/ \E w \in Workers : Store(w)

SpecCache == InitCache /\ [][NextCache]_vars

\* ------------------------------------------------------------------------
\* odds_api.py: fetch_player_props and parse_game_data
\* ------------------------------------------------------------------------
VALID_BOOKS == { "DraftKings", "FanDuel", "BetMGM" }

\* The first market of each batch stands for the batch (lines 115-116)
all_markets == << "batter_hits", "pitcher_strikeouts" >>

\* book.get("title", "Unknown")
book_title(quote) == IF "title" \in DOMAIN quote THEN quote.title ELSE "Unknown"

\* outcome.get("description") or outcome.get("name"); None is ""
outcome_player(quote) ==
  IF "description" \in DOMAIN quote /\ quote.description # "" THEN quote.description
  ELSE IF "name" \in DOMAIN quote THEN quote.name
  ELSE ""

\* outcome.get("point")
outcome_point(quote) == IF "point" \in DOMAIN quote THEN quote.point ELSE NoLine

\* Lines 157 and 167: the quotes that become props
quote_kept(quote) ==
  /\ book_title(quote) \in VALID_BOOKS
  /\ outcome_player(quote) # ""
  /\ "price" \in DOMAIN quote

\* The dict of lines 168-174
quote_prop(quote) ==
  [ player    |-> outcome_player(quote),
    stat      |-> quote.key,
    line      |-> outcome_point(quote),
    odds      |-> quote.price,
    bookmaker |-> book_title(quote) ]

\* The loops of lines 153-174 over the outcomes of one response, flattened
\* in their order
batch_props(quotes) ==
  LET kept == SelectSeq(quotes, quote_kept)
  IN  [i \in 1..Len(kept) |-> quote_prop(kept[i])]

\* Bound on the number of events the provider lists
MaxEvents == 2

\* The player the quotes of the i-th event are about
EventPlayer(i) == "Player " \o ToString(i)

\* The event listing: failed, or a list of events, each with an id or
\* without one
EventResponses ==
  { [ ok |-> FALSE, events |-> << >> ] } \cup
  { [ ok |-> TRUE, events |-> l ] : l \in ListsUpTo({ TRUE, FALSE }, MaxEvents) }

\* Outcomes of the odds of event i for market key: quoted by an allowed
\* book, without description and point, by a book outside the allow-list,
\* without a price, and without a player
QuoteFull(i, key) ==
  [ title |-> "DraftKings", key |-> key, description |-> EventPlayer(i),
    name |-> "Over", price |-> -120, point |-> 15 ]

QuoteNamed(i, key) ==
  [ title |-> "FanDuel", key |-> key, name |-> EventPlayer(i), price |-> 150 ]

QuoteOtherBook(i, key) ==
  [ title |-> "Caesars", key |-> key, description |-> EventPlayer(i),
    name |-> "Over", price |-> -110, point |-> 15 ]

QuoteUnpriced(i, key) ==
  [ title |-> "BetMGM", key |-> key, description |-> EventPlayer(i), point |-> 15 ]

QuoteAnonymous(i, key) == [ title |-> "BetMGM", key |-> key, price |-> 100 ]

\* The answers to the odds request of event i for a batch: a failed request
\* (exception, timeout, non-2xx, unparsable body), a payload, or a payload
\* whose tail is malformed (faulty: the loops raise after the quotes listed)
BatchResponses(i, key) ==
  { [ ok |-> FALSE, quotes |-> << >>, faulty |-> FALSE ],
    [ ok |-> TRUE, quotes |-> << >>, faulty |-> FALSE ],
    [ ok |-> TRUE, faulty |-> FALSE,
      quotes |-> << QuoteFull(i, key), QuoteOtherBook(i, key), QuoteUnpriced(i, key) >> ],
    [ ok |-> TRUE, faulty |-> FALSE,
      quotes |-> << QuoteNamed(i, key), QuoteAnonymous(i, key), QuoteFull(i, key) >> ],
    [ ok |-> TRUE, faulty |-> TRUE, quotes |-> << QuoteFull(i, key) >> ] }

\* The moneyline answers: failed, no matchup, one matchup
GamesResponses ==
  { [ ok |-> FALSE, data |-> << >> ],
    [ ok |-> TRUE, data |-> << >> ],
    [ ok |-> TRUE, data |-> << [ id |-> "game 1" ] >> ] }

FetchCalled ==
  [ pc |-> "call", events |-> << >>, event |-> 1, batch |-> 1,
    props |-> << >>, requests |-> << >>, answered |-> << >> ]

GamesCalled == [ pc |-> "call", requests |-> << >>, result |-> << >> ]

InitOdds ==
  /\ ODDS_API_KEY \in BOOLEAN
  /\ fetch = FetchCalled
  /\ games = GamesCalled
  /\ EnrichIdle
  /\ DedupIdle
  /\ EstIdle

\* Lines 90-92: no key, return []
FetchNoKey ==
  /\ fetch.pc = "call" /\ games.pc = "call"
  /\ ~ODDS_API_KEY
  /\ fetch' = [fetch EXCEPT !.pc = "returned"]
  /\ UNCHANGED << ODDS_API_KEY, games, enrich_vars, dedup_vars, est_vars >>

\* Mutant: the event listing requested without the key check
FetchEventsUnchecked ==
  /\ fetch.pc = "call" /\ games.pc = "call"
  /\ \E resp \in EventResponses :
       fetch' = [fetch EXCEPT
         !.requests = Append(@, [ kind |-> "events", ok |-> resp.ok ]),
         !.events = resp.events,
         !.pc = IF resp.ok THEN "events" ELSE "returned"]
  /\ UNCHANGED << ODDS_API_KEY, games, enrich_vars, dedup_vars, est_vars >>

\* Lines 94-109: the event listing; a failure returns []
FetchEvents ==
  /\ fetch.pc = "call" /\ games.pc = "call"
  /\ ODDS_API_KEY
  /\ \E resp \in EventResponses :
       fetch' = [fetch EXCEPT
         !.requests = Append(@, [ kind |-> "events", ok |-> resp.ok ]),
         !.events = resp.events,
         !.pc = IF resp.ok THEN "events" ELSE "returned"]
  /\ UNCHANGED << ODDS_API_KEY, games, enrich_vars, dedup_vars, est_vars >>

\* Lines 123-125: an event without an id is passed over
SkipEvent ==
  /\ fetch.pc = "events"
  /\ fetch.event <= Len(fetch.events)
  /\ ~fetch.events[fetch.event]
  /\ fetch' = [fetch EXCEPT !.event = @ + 1]
  /\ UNCHANGED << ODDS_API_KEY, games, enrich_vars, dedup_vars, est_vars >>

\* Mutant: a failed batch ends the collection
FetchBatchAborting ==
  /\ fetch.pc = "events"
  /\ fetch.event <= Len(fetch.events)
  /\ fetch.events[fetch.event]
  /\ \E resp \in BatchResponses(fetch.event, all_markets[fetch.batch]) :
       fetch' = [fetch EXCEPT
         !.requests = Append(@, [ kind |-> "odds", ok |-> resp.ok ]),
         !.answered = Append(@, [ event |-> fetch.event, batch |-> fetch.batch,
                                  resp |-> resp ]),
         !.props = @ \o batch_props(resp.quotes),
         !.batch = IF fetch.batch < Len(all_markets) THEN @ + 1 ELSE 1,
         !.event = IF fetch.batch < Len(all_markets) THEN @ ELSE @ + 1,
         !.pc = IF resp.ok /\ ~resp.faulty THEN "events" ELSE "returned"]
  /\ UNCHANGED << ODDS_API_KEY, games, enrich_vars, dedup_vars, est_vars >>

\* Lines 128-178: one batch of one event; what the loops appended before a
\* fault stays, and the fault is caught and the next batch taken up
FetchBatch ==
  /\ fetch.pc = "events"
  /\ fetch.event <= Len(fetch.events)
  /\ fetch.events[fetch.event]
  /\ \E resp \in BatchResponses(fetch.event, all_markets[fetch.batch]) :
       fetch' = [fetch EXCEPT
         !.requests = Append(@, [ kind |-> "odds", ok |-> resp.ok ]),
         !.answered = Append(@, [ event |-> fetch.event, batch |-> fetch.batch,
                                  resp |-> resp ]),
         !.props = @ \o batch_props(resp.quotes),
         !.batch = IF fetch.batch < Len(all_markets) THEN @ + 1 ELSE 1,
         !.event = IF fetch.batch < Len(all_markets) THEN @ ELSE @ + 1]
  /\ UNCHANGED << ODDS_API_KEY, games, enrich_vars, dedup_vars, est_vars >>

\* Lines 182-193: return props
FetchReturn ==
  /\ fetch.pc = "events"
  /\ fetch.event > Len(fetch.events)
  /\ fetch' = [fetch EXCEPT !.pc = "returned"]
  /\ UNCHANGED << ODDS_API_KEY, games, enrich_vars, dedup_vars, est_vars >>

\* Lines 27-29: no key, return []
GamesNoKey ==
  /\ games.pc = "call" /\ fetch.pc = "call"
  /\ ~ODDS_API_KEY
  /\ games' = [games EXCEPT !.pc = "returned"]
  /\ UNCHANGED << ODDS_API_KEY, fetch, enrich_vars, dedup_vars, est_vars >>

\* Mutant: whatever the preferred books answer is returned
GamesPreferredOnly ==
  /\ games.pc = "call" /\ fetch.pc = "call"
  /\ ODDS_API_KEY
  /\ \E resp \in GamesResponses :
       games' = [games EXCEPT
         !.requests = Append(@, [ kind |-> "preferred", ok |-> resp.ok, data |-> resp.data ]),
         !.result = resp.data,
         !.pc = "returned"]
  /\ UNCHANGED << ODDS_API_KEY, fetch, enrich_vars, dedup_vars, est_vars >>

\* Lines 32-58: the request to the preferred books; non-empty data is
\* returned, empty data and a failure go on to the second request
GamesPreferred ==
  /\ games.pc = "call" /\ fetch.pc = "call"
  /\ ODDS_API_KEY
  /\ \E resp \in GamesResponses :
       games' = [games EXCEPT
         !.requests = Append(@, [ kind |-> "preferred", ok |-> resp.ok, data |-> resp.data ]),
         !.result = IF resp.ok /\ resp.data # << >> THEN resp.data ELSE << >>,
         !.pc = IF resp.ok /\ resp.data # << >> THEN "returned" ELSE "fallback"]
  /\ UNCHANGED << ODDS_API_KEY, fetch, enrich_vars, dedup_vars, est_vars >>

\* Lines 61-81: the request without the bookmakers filter; its data is
\* returned, [] when it fails
GamesAll ==
  /\ games.pc = "fallback"
  /\ \E resp \in GamesResponses :
       games' = [games EXCEPT
         !.requests = Append(@, [ kind |-> "all", ok |-> resp.ok, data |-> resp.data ]),
         !.result = IF resp.ok THEN resp.data ELSE << >>,
         !.pc = "returned"]
  /\ UNCHANGED << ODDS_API_KEY, fetch, enrich_vars, dedup_vars, est_vars >>

NextOdds ==
  \/ FetchNoKey
  \/ FetchEvents
  \/ SkipEvent
  \/ FetchBatch
  \/ FetchReturn
  \/ GamesNoKey
  \/ GamesPreferred
  \/ GamesAll

SpecOdds == InitOdds /\ [][NextOdds]_vars

\* ------------------------------------------------------------------------
\* Properties
\* ------------------------------------------------------------------------
\* The (player, stat, line) identity of a prop or an enriched prop; a dict
\* without one of the three keys has an identity without it
Identity(d) == [k \in ({ "player", "stat", "line" } \cap DOMAIN d) |-> d[k]]

\* C1: enrich_player_props returns a list of the length of its input whose
\* i-th element carries the (player, stat, line) of the i-th input prop,
\* whatever order the tasks complete in and whatever the upstream answers;
\* the list under construction is always such a prefix.
C1_SameIdentitiesInOrder ==
  /\ Len(enriched_props) <= Len(props)
  /\ \A i \in 1..Len(enriched_props) : Identity(enriched_props[i]) = Identity(props[i])
  /\ pc = "returned" => Len(enriched_props) = Len(props)

\* Two different props, the second task completed first, the call returned
C1_Witness ==
  /\ pc = "returned"
  /\ Len(props) >= 2
  /\ Identity(props[1]) # Identity(props[2])
  /\ Len(finished) >= 2 /\ finished[1] = 2

\* A HitRateEstimate of the data model: hitRate in [0, 1], confidence one of
\* the four levels
WellFormedEstimate(e) ==
  /\ "hit_rate" \in DOMAIN e
  /\ e.hit_rate \in 0..100
  /\ "confidence" \in DOMAIN e
  /\ e.confidence \in { "Low", "Medium", "High", "Unknown" }

\* C2: every estimate attached to a prop by enrich_prop has a hit rate in
\* [0, 1] and a confidence among Low, Medium, High, Unknown.
C2_EstimatesWellFormed ==
  \A i \in 1..Len(enriched_props) :
    /\ WellFormedEstimate(enriched_props[i].contextual_hit_rate)
    /\ WellFormedEstimate(enriched_props[i].fantasy_hit_rate)

\* C3: every returned element has both estimates, neither of them null or
\* empty, and is marked enriched unless it records the fault in "error".
C3_EstimatesPresent ==
  \A i \in 1..Len(enriched_props) :
    LET r == enriched_props[i]
    IN  /\ { "contextual_hit_rate", "fantasy_hit_rate", "enriched" } \subseteq DOMAIN r
        /\ DOMAIN r.contextual_hit_rate # {}
        /\ DOMAIN r.fantasy_hit_rate # {}
        /\ r.enriched = FALSE => "error" \in DOMAIN r

\* A returned list with an element that failed and one that did not
C3_Witness ==
  /\ pc = "returned"
  /\ \E i \in 1..Len(enriched_props) : enriched_props[i].enriched = FALSE
  /\ \E i \in 1..Len(enriched_props) : enriched_props[i].enriched = TRUE

\* Indices of the entries of props with the identity of props[i]
SameKey(list, i) == { j \in 1..Len(list) : Identity(list[j]) = Identity(list[i]) }

\* The first-seen entry among those of greatest odds with the identity of
\* list[i]
BestIndex(list, i) ==
  CHOOSE j \in SameKey(list, i) :
    /\ \A k \in SameKey(list, i) : list[k].odds <= list[j].odds
    /\ \A k \in SameKey(list, i) : list[k].odds = list[j].odds => j <= k

C5_Idempotent == dpc = "twice" => rededuplicated = deduplicated

\* A list that deduplication shortened to two keys, deduplicated twice
C5_Witness ==
  /\ dpc = "twice"
  /\ Len(deduplicated) = 2
  /\ Len(raw_props) = 3
  /\ rededuplicated = deduplicated

EstimateKeys == { "player", "stat", "threshold", "hit_rate", "sample_size", "confidence" }

\* The call found no player id: the people search failed or matched nobody,
\* or (enrichment.py) a fresh cache entry holds None
PlayerUnresolved ==
  IF /\ est_call.module = "enrichment"
     /\ enrichment_cache_fresh(est_upstream.cache, est_call.player_name, est_upstream.now)
    THEN est_upstream.cache[enrichment_cache_key(est_call.player_name)].player_id = 0
    ELSE ~est_upstream.search.ok \/ est_upstream.search.people = << >>

\* The context the called module reads from the hitting game log
ResolvedContext ==
  IF est_call.module = "contextual"
    THEN contextual_get_opponent_context(est_upstream.context)
    ELSE enrichment_get_opponent_context(est_upstream.context)

\* The 10 most recent entries of the game log, by position
RecentIdx ==
  { i \in 1..Len(est_upstream.logs.splits) : i <= 10 }

\* Those of them against the opponent and the pitcher hand of the context
MatchingIdx ==
  { i \in RecentIdx :
      /\ est_upstream.logs.splits[i].opponent = ResolvedContext[2]
      /\ est_upstream.logs.splits[i].hand = ResolvedContext[3] }

\* gameStat(entry) as the called module reads it
GameStatOf(entry) ==
  IF est_call.module = "contextual"
    THEN contextual_stat_value(entry.stat, contextual_fallback_key(est_call.stat_type))
    ELSE enrichment_stat_value(entry.stat, get_stat_mapping(est_call.stat_type))

OverIdx(idx) ==
  { i \in idx : GameStatOf(est_upstream.logs.splits[i]) * 10 >= est_call.threshold }

\* The result is an estimate computed over the entries idx
ComputedOver(idx) ==
  /\ ~IsRaised(est_result)
  /\ "note" \notin DOMAIN est_result
  /\ "error" \notin DOMAIN est_result
  /\ est_result.sample_size = Cardinality(idx)
  /\ est_result.hit_rate = round2_div(Cardinality(OverIdx(idx)), Cardinality(idx))

\* The result is the static fallback
IsStaticFallback ==
  /\ ~IsRaised(est_result)
  /\ "note" \in DOMAIN est_result

\* C7: for any stat key and numeric threshold, a call of either
\* get_contextual_hit_rate that cannot resolve the player's id raises nothing
\* and returns a complete estimate whose confidence is "Low".
C7_UnresolvedPlayerGetsLowEstimate ==
  (est_pc = "done" /\ est_call.threshold # NoLine /\ PlayerUnresolved) =>
    /\ ~IsRaised(est_result)
    /\ EstimateKeys \subseteq DOMAIN est_result
    /\ est_result.player = est_call.player_name
    /\ est_result.threshold = est_call.threshold
    /\ est_result.hit_rate \in 0..100
    /\ est_result.sample_size \in Nat
    /\ est_result.confidence = "Low"

\* A failed people search under a stat whose fallback rate is 0.65
C7_Witness ==
  /\ est_pc = "done"
  /\ est_call.module = "contextual"
  /\ est_call.stat_type = "batter_strikeouts"
  /\ est_call.threshold = 5
  /\ ~est_upstream.search.ok
  /\ PlayerUnresolved
  /\ est_result.confidence = "Low"
  /\ est_result.hit_rate = 65

ClaimedConfidence(hit_rate, sample_size) ==
  IF sample_size < 5 THEN "Low"
  ELSE IF hit_rate >= 60 THEN "High"
  ELSE IF hit_rate >= 50 THEN "Medium"
  ELSE "Low"

\* C9: every estimate that is not a fallback has confidence Low when its
\* sample is below 5, else High from 0.60, Medium from 0.50, Low below.
C9_ConfidenceRule ==
  (/\ est_pc = "done"
   /\ ~IsRaised(est_result)
   /\ "note" \notin DOMAIN est_result
   /\ "error" \notin DOMAIN est_result) =>
    est_result.confidence = ClaimedConfidence(est_result.hit_rate, est_result.sample_size)

\* The multiplier of C10
ClaimedMultiplier(threshold) ==
  IF threshold >= 50 THEN 65
  ELSE IF threshold >= 30 THEN 80
  ELSE IF threshold >= 15 THEN 90
  ELSE 100

\* The static table rate the called module has for the stat
TableRate ==
  IF est_call.module = "contextual"
    THEN contextual_base_rate(contextual_fallback_key(est_call.stat_type))
    ELSE enrichment_base_rate(est_call.stat_type)

\* C10: for every stat key and threshold the fallback hit rate is
\* round(base * m, 2) with m = 0.65 from 5, 0.80 from 3, 0.90 from 1.5 and 1
\* below; base 0.35 with a threshold of 5 or more gives 0.23.
C10_FallbackRate ==
  (est_pc = "done" /\ est_call.threshold # NoLine) =>
    /\ est_result.hit_rate = round2_scaled(TableRate, ClaimedMultiplier(est_call.threshold))
    /\ (TableRate = 35 /\ est_call.threshold >= 50) => est_result.hit_rate = 23

\* ------------------------------------------------------------------------
\* Properties of the fallbacks and of the composite score
\* ------------------------------------------------------------------------
\* An estimate that was not computed from a game sample: every such dict of
\* the code carries a "note" or an "error"
IsFallbackEstimate(e) == "note" \in DOMAIN e \/ "error" \in DOMAIN e

\* The shape C11 gives every fallback
FallbackShape(e) ==
  /\ "confidence" \in DOMAIN e /\ e.confidence = "Low"
  /\ "sample_size" \in DOMAIN e /\ e.sample_size = 10
  /\ "note" \in DOMAIN e

\* C11: every fallback estimate attached by enrich_prop (a static fallback
\* of the estimator, or a default enrich_prop substituted) has confidence
\* Low, sample size 10 and a note.
C11_FallbacksLowTenNote ==
  \A i \in 1..Len(enriched_props) :
    /\ IsFallbackEstimate(enriched_props[i].contextual_hit_rate)
         => FallbackShape(enriched_props[i].contextual_hit_rate)
    /\ IsFallbackEstimate(enriched_props[i].fantasy_hit_rate)
         => FallbackShape(enriched_props[i].fantasy_hit_rate)

\* The composite score of C12
ClaimedFantasyScore(g) ==
  1 * Max0(g.hits - g.doubles - g.triples - g.homeRuns)
    + 2 * g.doubles + 3 * g.triples + 4 * g.homeRuns
    + 1 * g.rbi + 1 * g.runs + 2 * g.stolenBases + 1 * g.baseOnBalls

\* C12: the composite fantasy score of a game line of non-negative counts is
\* singles + 2 doubles + 3 triples + 4 home runs + RBI + runs + 2 stolen
\* bases + walks, with singles = max(0, hits - doubles - triples - home
\* runs); 2 hits of which 1 double, 1 RBI and 1 run give 5.
C12_FantasyScore ==
  est_pc = "done" =>
    /\ est_result = ClaimedFantasyScore(est_call.game_stat)
    /\ est_call.game_stat = [ hits |-> 2, doubles |-> 1, triples |-> 0, homeRuns |-> 0,
                              rbi |-> 1, runs |-> 1, stolenBases |-> 0, baseOnBalls |-> 0 ]
         => est_result = 5

\* The unfiltered tier of contextual.py is reached: a mapped stat, a numeric
\* threshold, player and context resolved and a game log of at least 2
\* entries (below 2, line 169 leaves for the static fallback)
UnfilteredTierReached ==
  /\ est_pc = "done"
  /\ est_call.module = "contextual"
  /\ est_call.stat_type \in DOMAIN STAT_KEY_MAP
  /\ est_call.threshold # NoLine
  /\ ~PlayerUnresolved
  /\ ResolvedContext # << >>
  /\ est_upstream.logs.ok
  /\ Len(est_upstream.logs.splits) >= 2

\* min(n, 10)
MinTen(n) == IF n <= 10 THEN n ELSE 10

\* C13: when the unfiltered tier is reached with a log of n entries, the
\* sample is the min(n, 10) most recent entries and the sample size is
\* min(n, 10); when all of them meet the threshold the hit rate is 1.0.
C13_UnfilteredSample ==
  UnfilteredTierReached =>
    /\ ~IsRaised(est_result)
    /\ "note" \notin DOMAIN est_result
    /\ est_result.sample_size = MinTen(Len(est_upstream.logs.splits))
    /\ est_result.hit_rate =
         round2_div(Cardinality(OverIdx(1..MinTen(Len(est_upstream.logs.splits)))),
                    MinTen(Len(est_upstream.logs.splits)))
    /\ OverIdx(1..MinTen(Len(est_upstream.logs.splits)))
         = 1..MinTen(Len(est_upstream.logs.splits))
         => est_result.hit_rate = 100

\* 12 entries, each over the threshold: hit rate 1.0 over a sample of 10
C13_Witness ==
  /\ UnfilteredTierReached
  /\ Len(est_upstream.logs.splits) = 12
  /\ OverIdx(1..12) = 1..12
  /\ est_result.hit_rate = 100
  /\ est_result.sample_size = 10

\* ------------------------------------------------------------------------
\* Properties of the player-id cache
\* ------------------------------------------------------------------------
\* The first match of a people search, None (0) without one
FirstMatch(search) == IF search.people = << >> THEN 0 ELSE search.people[1]

\* What C14 requires of the steps of thread w
CacheStep(w) ==
  LET key   == "player_id_" \o worker'[w].name
      young == /\ key \in DOMAIN player_id_cache
               /\ clock - player_id_cache[key].timestamp < 3600
  IN  /\ (worker[w].pc \in { "idle", "returned" } /\ worker'[w] # worker[w]) =>
           IF young
             THEN /\ worker'[w].pc = "returned"
                  /\ ~worker'[w].requested
                  /\ worker'[w].result = player_id_cache[key].player_id
                  /\ player_id_cache' = player_id_cache
             ELSE /\ worker'[w].pc = "requesting"
                  /\ worker'[w].requested
      /\ (worker[w].pc = "requesting" /\ worker'[w].pc = "returned") =>
           ~worker'[w].search.ok
      /\ (worker[w].pc = "storing" /\ worker'[w].pc = "returned") =>
           /\ worker[w].search.ok
           /\ key \in DOMAIN player_id_cache'
           /\ player_id_cache'[key] = [ player_id |-> FirstMatch(worker[w].search),
                                        timestamp |-> clock ]
           /\ worker'[w].result = FirstMatch(worker[w].search)

\* C14: in every sequence of get_player_id calls and clock advances, a call
\* for a name whose entry is younger than 3600 s returns the cached id
\* without a request; a call for a name without an entry, or with one aged
\* 3600 s or more, issues the search and, when it succeeds, stores the first
\* match with the current time and returns it.
C14_CacheTimeToLive == [][\A w \in Workers : CacheStep(w)]_vars

\* A call answered from an entry one second short of the timeout
C14_Witness ==
  \E w \in Workers :
    /\ worker[w].pc = "returned"
    /\ ~worker[w].requested
    /\ enrichment_cache_key(worker[w].name) \in DOMAIN player_id_cache
    /\ clock - player_id_cache[enrichment_cache_key(worker[w].name)].timestamp
         = cache_timeout - 1
    /\ worker[w].result = MlbId(worker[w].name)

\* Every entry is a whole (id, timestamp) pair under the key of a name,
\* with an id the search gives for that name; a call answered from the
\* cache returns such an id
CacheEntriesWhole ==
  /\ \A key \in DOMAIN player_id_cache :
       \E player_name \in PlayerNames :
         /\ key = "player_id_" \o player_name
         /\ DOMAIN player_id_cache[key] = { "player_id", "timestamp" }
         /\ player_id_cache[key].player_id \in { 0, MlbId(player_name) }
         /\ player_id_cache[key].timestamp \in 0..clock
  /\ \A w \in Workers :
       (worker[w].pc = "returned" /\ ~worker[w].requested) =>
         worker[w].result \in { 0, MlbId(worker[w].name) }

\* A step that changes the cache is the store of one thread's completed
\* lookup: the entry of that thread's name becomes its (id, time) pair and
\* no other entry changes
CacheWrittenByOneLookup ==
  player_id_cache' # player_id_cache =>
    \E w \in Workers :
      /\ worker[w].pc = "storing"
      /\ DOMAIN player_id_cache' = DOMAIN player_id_cache \cup { "player_id_" \o worker[w].name }
      /\ \A key \in DOMAIN player_id_cache' :
           player_id_cache'[key] =
             IF key = "player_id_" \o worker[w].name
               THEN [ player_id |-> FirstMatch(worker[w].search), timestamp |-> clock ]
               ELSE player_id_cache[key]

\* C15: under every interleaving of concurrent get_player_id calls, every
\* cache entry is an (id, timestamp) pair written whole by one completed
\* lookup of its own name, and a call answered from the cache returns the id
\* of such a pair.
C15_CacheSafeUnderConcurrency ==
  []CacheEntriesWhole /\ [][CacheWrittenByOneLookup]_vars

\* Two threads that both missed the same name: one has stored its entry, the
\* other is about to replace it
C15_Witness ==
  /\ worker[1].pc = "storing"
  /\ worker[2].pc = "returned" /\ worker[2].requested /\ worker[2].search.ok
  /\ worker[1].name = worker[2].name
  /\ enrichment_cache_key(worker[1].name) \in DOMAIN player_id_cache
  /\ worker[1].player_id # worker[2].player_id

\* ------------------------------------------------------------------------
\* Properties of the odds fetch
\* ------------------------------------------------------------------------
\* A quote that qualifies: from an allowed book, with a player and a price
Qualifies(q) ==
  /\ "title" \in DOMAIN q /\ q.title \in { "DraftKings", "FanDuel", "BetMGM" }
  /\ "price" \in DOMAIN q
  /\ "description" \in DOMAIN q \/ "name" \in DOMAIN q

\* The prop of a qualifying quote
QuoteAsProp(q) ==
  [ player    |-> IF "description" \in DOMAIN q THEN q.description ELSE q.name,
    stat      |-> q.key,
    line      |-> IF "point" \in DOMAIN q THEN q.point ELSE NoLine,
    odds      |-> q.price,
    bookmaker |-> q.title ]

\* C16: whatever single event or batch requests fail, every qualifying quote
\* of every request that succeeded is in the list, every batch of every
\* event with an id is requested, and the call returns its list.
C16_FailedBatchSkipped ==
  /\ \A n \in 1..Len(fetch.answered) :
       fetch.answered[n].resp.ok =>
         \A m \in 1..Len(fetch.answered[n].resp.quotes) :
           Qualifies(fetch.answered[n].resp.quotes[m]) =>
             \E k \in 1..Len(fetch.props) :
               fetch.props[k] = QuoteAsProp(fetch.answered[n].resp.quotes[m])
  /\ (fetch.pc = "returned" /\ fetch.requests # << >> /\ fetch.requests[1].ok) =>
       \A i \in 1..Len(fetch.events) :
         fetch.events[i] =>
           \A b \in 1..2 :
             \E n \in 1..Len(fetch.answered) :
               fetch.answered[n].event = i /\ fetch.answered[n].batch = b

\* Both batches of the first event failed and the second event's quotes are
\* in the returned list
C16_Witness ==
  /\ fetch.pc = "returned"
  /\ Len(fetch.answered) = 4
  /\ ~fetch.answered[1].resp.ok /\ ~fetch.answered[2].resp.ok
  /\ fetch.answered[3].resp.ok /\ fetch.answered[4].resp.ok
  /\ Len(fetch.props) = 4
  /\ \A k \in 1..4 : fetch.props[k].player = "Player 2"

\* A call came back empty after at most one request, none answered
Aborted(call, result) ==
  /\ call.pc = "returned"
  /\ result = << >>
  /\ Len(call.requests) <= 1
  /\ \A n \in 1..Len(call.requests) : ~call.requests[n].ok

\* Without the key both functions return [] and request nothing
NoKeyNoRequest ==
  ~ODDS_API_KEY =>
    /\ fetch.requests = << >> /\ fetch.props = << >>
    /\ games.requests = << >> /\ games.result = << >>

\* C17 as stated: without the key both functions return [] without a
\* request, and with the key no single failed request ends either of them
\* with an empty result.
C17_OnlyMissingKeyAborts ==
  /\ NoKeyNoRequest
  /\ Aborted(fetch, fetch.props) => ~ODDS_API_KEY
  /\ Aborted(games, games.result) => ~ODDS_API_KEY

\* C17, amended: without the key both functions return [] without a
\* request; with the key, the one single failure that ends a fetch with an
\* empty result is that of the event listing of fetch_player_props, and once
\* the listing is answered every batch of every event with an id is
\* requested.
C17_MissingKeyOrEventListingAborts ==
  /\ NoKeyNoRequest
  /\ Aborted(fetch, fetch.props) =>
       \/ ~ODDS_API_KEY
       \/ fetch.requests = << [ kind |-> "events", ok |-> FALSE ] >>
  /\ Aborted(games, games.result) => ~ODDS_API_KEY
  /\ (fetch.pc = "returned" /\ fetch.requests # << >> /\ fetch.requests[1].ok) =>
       Len(fetch.requests)
         = 1 + 2 * Cardinality({ i \in 1..Len(fetch.events) : fetch.events[i] })

\* The key is set and the event listing fails: [] after one request
C17_Witness ==
  /\ ODDS_API_KEY
  /\ fetch.pc = "returned"
  /\ fetch.requests = << [ kind |-> "events", ok |-> FALSE ] >>
  /\ fetch.props = << >>

\* C18: parse_game_data asks the preferred books first; non-empty data is
\* returned without a second request; on empty data exactly one request
\* without the filter follows and its result is returned; no call makes more
\* than two requests.
C18_PreferredThenAll ==
  /\ Len(games.requests) <= 2
  /\ \A n \in 1..Len(games.requests) :
       games.requests[n].kind = IF n = 1 THEN "preferred" ELSE "all"
  /\ (games.pc = "returned" /\ ODDS_API_KEY) =>
       /\ Len(games.requests) >= 1
       /\ (games.requests[1].ok /\ games.requests[1].data # << >>) =>
            /\ Len(games.requests) = 1
            /\ games.result = games.requests[1].data
       /\ (games.requests[1].ok /\ games.requests[1].data = << >>) =>
            /\ Len(games.requests) = 2
            /\ games.result = games.requests[2].data

\* The preferred books had nothing and the second request had a matchup
C18_Witness ==
  /\ games.pc = "returned"
  /\ Len(games.requests) = 2
  /\ games.requests[1].ok /\ games.requests[1].data = << >>
  /\ games.requests[2].ok /\ games.result # << >>

\* C19: two props of the input whose (player, stat, line) differ have
\* different keys, and both are in the output of deduplicate_props.
C19_DistinctTuplesSurvive ==
  dpc # "input" =>
    \A i, j \in 1..Len(raw_props) :
      Identity(raw_props[i]) # Identity(raw_props[j]) =>
        /\ prop_key(raw_props[i]) # prop_key(raw_props[j])
        /\ \E k \in 1..Len(deduplicated) :
             Identity(deduplicated[k]) = Identity(raw_props[i])
        /\ \E k \in 1..Len(deduplicated) :
             Identity(deduplicated[k]) = Identity(raw_props[j])
====
